---- MODULE Spec2Model ----
(***************************************************************************)
(* A model of main.py: the batch run (main) and the dashboard run          *)
(* (run_dashboard) over one in-memory table, and the pandas operations    *)
(* the run applies to it.                                                  *)
(*                                                                         *)
(* A table is [idx |-> <<row labels>>, col |-> [name |-> column]], a       *)
(* column is [dtype |-> "object" | "int64" | "float64" | "datetime64",     *)
(* v |-> <<cells>>], and a cell is NA (NaN / NaT / None), Num(n), Str(s)   *)
(* with s a sequence of characters, or Ts(t) with t a timestamp in hours   *)
(* since 1970-01-01 00:00.                                                 *)
(***************************************************************************)
EXTENDS Integers, Sequences, FiniteSets, TLC

VARIABLES file, args, holiday_kwargs, df, pc, ran, stdout, files, reads, exit_code

vars == <<file, args, holiday_kwargs, df, pc, ran, stdout, files, reads, exit_code>>

(***************************************************************************)
(* file: the CSV at args.file, [exists |-> FALSE] or [exists |-> TRUE,     *)
(*   table |-> the table pd.read_csv returns for it].                      *)
(* args: the parsed command line.                                          *)
(* holiday_kwargs: the important_dates and window_days the run passes to   *)
(*   holiday_release_analysis (main and run_dashboard pass neither, so     *)
(*   the parameters' defaults).                                            *)
(* df: the table of the run.  pc: the step to run next, "done" or          *)
(*   "aborted".  ran: the steps run so far, in order.                      *)
(* stdout: what the run has shown, in order: printed lines and, in the     *)
(*   dashboard, the page's elements.  files: the artifacts written under   *)
(*   outputs/, by name.  reads: which column each consumer step read as    *)
(*   the viewership metric or as the release date.                         *)
(* exit_code: <<>> while the process lives, <<status>> once it has exited. *)
(***************************************************************************)

----------------------------------------------------------------------------
(* Cells *)

NA == [k |-> "na"]

Num(n) == [k |-> "num", v |-> n]

Str(s) == [k |-> "str", v |-> s]

Ts(t) == [k |-> "ts", v |-> t]

\* pd.isna / pd.notna
isna(c) == c.k = "na"

notna(c) == ~isna(c)

\* Equality of two cells as pandas compares labels (NaN equals nothing).
SameCell(a, b) == a.k = b.k /\ a.k # "na" /\ a.v = b.v

----------------------------------------------------------------------------
(* Sequences *)

RECURSIVE SeqSum(_)
SeqSum(s) == IF s = <<>> THEN 0 ELSE Head(s) + SeqSum(Tail(s))

Min(S) == CHOOSE x \in S : \A y \in S : x <= y

RECURSIVE Ascending(_)
\* The integers of a finite set, ascending.
Ascending(S) == IF S = {} THEN <<>> ELSE <<Min(S)>> \o Ascending(S \ {Min(S)})

Take(s, n) == IF n >= Len(s) THEN s ELSE SubSeq(s, 1, n)

Range(s) == {s[i] : i \in 1..Len(s)}

----------------------------------------------------------------------------
(* Text: Python str values as sequences of one-character strings *)

\* The characters the model's texts are made of, in code-point order.
Alphabet ==
    <<" ", ",", ".", "0", "1", "2", "3", "4", "5", "6", "7", "8", "9",
      "A", "B", "F", "M", "S", "T", "W",
      "a", "b", "c", "d", "e", "g", "h", "i", "l", "m", "n", "o", "p", "r", "s", "t", "u", "y">>

Digits == {"0", "1", "2", "3", "4", "5", "6", "7", "8", "9"}

CharRank(c) == CHOOSE i \in 1..Len(Alphabet) : Alphabet[i] = c

DigitValue(c) == CharRank(c) - CharRank("0")

DigitChar(d) == CHOOSE c \in Digits : DigitValue(c) = d

RECURSIVE StrLess(_, _)
\* Python's s < t on str: lexicographic by code point.
StrLess(s, t) ==
    IF t = <<>> THEN FALSE
    ELSE IF s = <<>> THEN TRUE
    ELSE IF Head(s) # Head(t) THEN CharRank(Head(s)) < CharRank(Head(t))
    ELSE StrLess(Tail(s), Tail(t))

RECURSIVE str_replace(_, _)
\* .str.replace(ch, ''): every occurrence of ch removed.
str_replace(s, ch) ==
    IF s = <<>> THEN <<>>
    ELSE (IF Head(s) = ch THEN <<>> ELSE <<Head(s)>>) \o str_replace(Tail(s), ch)

RECURSIVE lstrip(_)
lstrip(s) == IF s # <<>> /\ Head(s) = " " THEN lstrip(Tail(s)) ELSE s

RECURSIVE rstrip(_)
rstrip(s) ==
    IF s # <<>> /\ s[Len(s)] = " " THEN rstrip(SubSeq(s, 1, Len(s) - 1)) ELSE s

\* .str.strip(): leading and trailing whitespace removed.
str_strip(s) == rstrip(lstrip(s))

AllDigits(s) == s # <<>> /\ \A i \in 1..Len(s) : s[i] \in Digits

RECURSIVE DigitsValue(_)
DigitsValue(s) ==
    IF s = <<>> THEN 0
    ELSE 10 * DigitsValue(SubSeq(s, 1, Len(s) - 1)) + DigitValue(s[Len(s)])

RECURSIVE DigitsOf(_)
\* The decimal digits of a natural number.
DigitsOf(n) ==
    IF n < 10 THEN <<DigitChar(n)>> ELSE DigitsOf(n \div 10) \o <<DigitChar(n % 10)>>

PointAt(s) == IF \E i \in 1..Len(s) : s[i] = "."
              THEN CHOOSE i \in 1..Len(s) : s[i] = "." /\ \A j \in 1..(i - 1) : s[j] # "."
              ELSE 0

----------------------------------------------------------------------------
(* Tables *)

Columns(d) == DOMAIN d.col

NRows(d) == Len(d.idx)

Column(dtype, cells) == [dtype |-> dtype, v |-> cells]

\* df[name] = column: the column added or replaced, the others kept.
SetColumn(d, name, column) ==
    [d EXCEPT !.col = [c \in (DOMAIN d.col) \cup {name} |->
                           IF c = name THEN column ELSE d.col[c]]]

\* df[mask] with mask given as the ascending positions kept, and
\* df.take(positions) in general.
TakeRows(d, positions) ==
    [idx |-> [i \in 1..Len(positions) |-> d.idx[positions[i]]],
     col |-> [c \in DOMAIN d.col |->
                 [dtype |-> d.col[c].dtype,
                  v |-> [i \in 1..Len(positions) |-> d.col[c].v[positions[i]]]]]]

\* series.isna().sum()
CountNA(cells) == Cardinality({i \in 1..Len(cells) : isna(cells[i])})

NoException == "none"

----------------------------------------------------------------------------
(* clean_hours *)

\* Series.astype(str) on one value: NaN prints as nan, an int64 as its digits,
\* a float64 holding an integer as its digits followed by ".0".
astype_str(c, dtype) ==
    IF isna(c) THEN <<"n", "a", "n">>
    ELSE IF c.k = "str" THEN c.v
    ELSE IF dtype = "float64" THEN DigitsOf(c.v) \o <<".", "0">>
    ELSE DigitsOf(c.v)

IsZeros(s) == \A i \in 1..Len(s) : s[i] = "0"

\* A parser that knows no decimal point.
to_numeric_digits_only(s) == IF AllDigits(s) THEN Num(DigitsValue(s)) ELSE NA

\* pd.to_numeric(errors='coerce') on one text: a run of digits, optionally
\* followed by a point and zeros, is that number; anything else, "nan" and the
\* empty text included, is NaN.  (The model's numbers are integers; its texts
\* hold no non-zero fraction.)
to_numeric(s) ==
    LET p == PointAt(s) IN
    IF p = 0
    THEN IF AllDigits(s) THEN Num(DigitsValue(s)) ELSE NA
    ELSE IF AllDigits(SubSeq(s, 1, p - 1)) /\ IsZeros(SubSeq(s, p + 1, Len(s)))
         THEN Num(DigitsValue(SubSeq(s, 1, p - 1)))
         ELSE NA

\* The text with its separators left in.
hours_text_keeps_commas(c, dtype) == str_strip(astype_str(c, dtype))

\* The text of line 29 for one value: str, commas removed, then stripped.
hours_text(c, dtype) == str_strip(str_replace(astype_str(c, dtype), ","))

\* The dtype pd.to_numeric gives the column: int64 when every text was a run
\* of digits, float64 when one was missing or carried a point.
numeric_dtype(texts) ==
    IF \A i \in 1..Len(texts) : AllDigits(texts[i]) THEN "int64" ELSE "float64"

clean_hours_raises(d, col) == col \notin Columns(d)

\* clean_hours(df, col) for a column that is present: the table with the
\* column coerced, and what was printed.
clean_hours(d, col) ==
    LET old == d.col[col]
        texts == [i \in 1..Len(old.v) |-> hours_text(old.v[i], old.dtype)]
        cells == [i \in 1..Len(texts) |-> to_numeric(texts[i])]
        num_missing == CountNA(cells)
    IN [df |-> SetColumn(d, col, Column(numeric_dtype(texts), cells)),
        out |-> IF num_missing # 0
                THEN <<[msg |-> "Warning: rows have NaN after cleaning",
                        col |-> col, count |-> num_missing]>>
                ELSE <<>>]

----------------------------------------------------------------------------
(* Calendar: dates as days since 1970-01-01, timestamps as hours since then *)

IsLeap(y) == (y % 4 = 0 /\ y % 100 # 0) \/ y % 400 = 0

DaysInMonth(y, m) ==
    IF m = 2 THEN (IF IsLeap(y) THEN 29 ELSE 28)
    ELSE IF m \in {4, 6, 9, 11} THEN 30 ELSE 31

\* The day number of the civil date y-m-d (proleptic Gregorian).
DaysFromCivil(y, m, d) ==
    LET yy == IF m <= 2 THEN y - 1 ELSE y
        era == yy \div 400
        yoe == yy - era * 400
        mp == IF m > 2 THEN m - 3 ELSE m + 9
        doy == (153 * mp + 2) \div 5 + d - 1
        doe == yoe * 365 + yoe \div 4 - yoe \div 100 + doy
    IN era * 146097 + doe - 719468

\* The civil date of a day number, as [y, m, d].
CivilFromDays(z) ==
    LET zz == z + 719468
        era == zz \div 146097
        doe == zz - era * 146097
        yoe == (doe - doe \div 1460 + doe \div 36524 - doe \div 146096) \div 365
        doy == doe - (365 * yoe + yoe \div 4 - yoe \div 100)
        mp == (5 * doy + 2) \div 153
        d == doy - (153 * mp + 2) \div 5 + 1
        m == IF mp < 10 THEN mp + 3 ELSE mp - 9
    IN [y |-> yoe + era * 400 + (IF m <= 2 THEN 1 ELSE 0), m |-> m, d |-> d]

\* A date text "YYYY-MM-DD" or "YYYY-MM-DD HH:00" is held as its fields
\* [y, m, d, h]; a text that names no date has fields out of range.
DateText(y, m, d, h) == [k |-> "date", v |-> [y |-> y, m |-> m, d |-> d, h |-> h]]

\* pd.to_datetime(errors='coerce') on one value.
to_datetime(c) ==
    IF c.k = "ts" THEN c
    ELSE IF c.k # "date" THEN NA
    ELSE IF /\ c.v.m \in 1..12
            /\ c.v.d \in 1..DaysInMonth(c.v.y, c.v.m)
            /\ c.v.h \in 0..(23)
         THEN Ts(24 * DaysFromCivil(c.v.y, c.v.m, c.v.d) + c.v.h)
         ELSE NA

\* Timestamp.normalize() as a day number: \div rounds towards minus infinity.
DayOf(t) == t \div 24

\* .dt.month
dt_month(c) == IF isna(c) THEN NA ELSE Num(CivilFromDays(DayOf(c.v)).m)

\* .dt.year
dt_year(c) == IF isna(c) THEN NA ELSE Num(CivilFromDays(DayOf(c.v)).y)

WeekdayNames ==
    <<<<"M", "o", "n", "d", "a", "y">>, <<"T", "u", "e", "s", "d", "a", "y">>,
      <<"W", "e", "d", "n", "e", "s", "d", "a", "y">>, <<"T", "h", "u", "r", "s", "d", "a", "y">>,
      <<"F", "r", "i", "d", "a", "y">>, <<"S", "a", "t", "u", "r", "d", "a", "y">>,
      <<"S", "u", "n", "d", "a", "y">>>>

\* .dt.day_name(): 1970-01-01 was a Thursday.
dt_day_name(c) == IF isna(c) THEN NA ELSE Str(WeekdayNames[((DayOf(c.v) + 3) % 7) + 1])

\* The dtype of a derived integer column: float64 once a value is missing.
derived_dtype(cells) == IF CountNA(cells) = 0 THEN "int64" ELSE "float64"

prepare_dates_raises(d, date_col) == date_col \notin Columns(d)

\* prepare_dates(df, date_col) for a column that is present.
prepare_dates(d, date_col) ==
    LET old == d.col[date_col]
        dates == [i \in 1..Len(old.v) |-> to_datetime(old.v[i])]
        missing_dates == CountNA(dates)
        months == [i \in 1..Len(dates) |-> dt_month(dates[i])]
        days == [i \in 1..Len(dates) |-> dt_day_name(dates[i])]
        years == [i \in 1..Len(dates) |-> dt_year(dates[i])]
        d1 == SetColumn(d, date_col, Column("datetime64", dates))
        d2 == SetColumn(d1, "Release Month", Column(derived_dtype(months), months))
        d3 == SetColumn(d2, "Release Day", Column("object", days))
        d4 == SetColumn(d3, "Release Year", Column(derived_dtype(years), years))
    IN [df |-> d4,
        out |-> IF missing_dates # 0
                THEN <<[msg |-> "Warning: rows have invalid or missing dates",
                        col |-> date_col, count |-> missing_dates]>>
                ELSE <<>>]

Winter == <<"W", "i", "n", "t", "e", "r">>

Spring == <<"S", "p", "r", "i", "n", "g">>

Summer == <<"S", "u", "m", "m", "e", "r">>

Fall == <<"F", "a", "l", "l">>

\* A classifier that takes December for a month of Fall.
get_season_december_fall(month) ==
    IF isna(month) THEN NA
    ELSE IF month.v \in {1, 2} THEN Str(Winter)
    ELSE IF month.v \in {3, 4, 5} THEN Str(Spring)
    ELSE IF month.v \in {6, 7, 8} THEN Str(Summer)
    ELSE Str(Fall)

\* get_season(month)
get_season(month) ==
    IF isna(month) THEN NA
    ELSE IF month.v \in {12, 1, 2} THEN Str(Winter)
    ELSE IF month.v \in {3, 4, 5} THEN Str(Spring)
    ELSE IF month.v \in {6, 7, 8} THEN Str(Summer)
    ELSE Str(Fall)

----------------------------------------------------------------------------
(* Series: a sequence of entries [key |-> cell, val |-> cell] *)

Entry(key, val) == [key |-> key, val |-> val]

\* a < b for two cells of one kind: numbers by value, texts as Python orders str.
CellLess(a, b) == IF a.k = "str" THEN StrLess(a.v, b.v) ELSE a.v < b.v

MinCell(S) == CHOOSE x \in S : \A y \in S : ~CellLess(y, x)

RECURSIVE SortedCells(_)
\* The cells of a finite set, ascending.
SortedCells(S) == IF S = {} THEN <<>> ELSE <<MinCell(S)>> \o SortedCells(S \ {MinCell(S)})

RECURSIVE Concat(_)
Concat(ss) == IF ss = <<>> THEN <<>> ELSE Head(ss) \o Concat(Tail(ss))

\* Series.sum() of the cells at the given positions: missing values are
\* skipped and an empty sum is 0; on an object column the texts are
\* concatenated by Python's +.
SumAt(column, positions) ==
    LET present == SelectSeq(positions, LAMBDA i : notna(column.v[i])) IN
    IF column.dtype = "object" /\ present # <<>>
    THEN Str(Concat([j \in 1..Len(present) |-> column.v[present[j]].v]))
    ELSE Num(SeqSum([j \in 1..Len(present) |-> column.v[present[j]].v]))

\* The ascending positions of the rows whose cell in `cells` is `key`.
PositionsOf(cells, key) == Ascending({i \in 1..Len(cells) : SameCell(cells[i], key)})

\* The distinct non-missing values of a column, ascending: the group keys.
GroupKeys(cells) == SortedCells({cells[i] : i \in {j \in 1..Len(cells) : notna(cells[j])}})

\* df.groupby(by)[val].sum(): one entry per distinct non-missing key, keys
\* ascending; rows with a missing key are in no group.
groupby_sum(d, by, val) ==
    LET keys == GroupKeys(d.col[by].v) IN
    [g \in 1..Len(keys) |->
        Entry(keys[g], SumAt(d.col[val], PositionsOf(d.col[by].v, keys[g])))]

\* series.value_counts(): the number of rows of each distinct non-missing value.
value_counts(cells) ==
    LET keys == GroupKeys(cells) IN
    [g \in 1..Len(keys) |-> Entry(keys[g], Num(Len(PositionsOf(cells, keys[g]))))]

RECURSIVE InsertDescending(_, _)
\* e placed behind every entry whose value is not smaller than its own.
InsertDescending(sorted, e) ==
    IF sorted = <<>> THEN <<e>>
    ELSE IF ~CellLess(sorted[Len(sorted)].val, e.val) THEN Append(sorted, e)
    ELSE Append(InsertDescending(SubSeq(sorted, 1, Len(sorted) - 1), e), sorted[Len(sorted)])

\* The series left in the order groupby gave it.
sort_values_unsorted(series) == series

RECURSIVE sort_values_descending(_)
\* series.sort_values(ascending=False): by value, largest first.
sort_values_descending(series) ==
    IF series = <<>> THEN <<>>
    ELSE InsertDescending(sort_values_descending(SubSeq(series, 1, Len(series) - 1)),
                          series[Len(series)])

HasKey(series, key) == \E i \in 1..Len(series) : SameCell(series[i].key, key)

ValueOf(series, key) ==
    series[CHOOSE i \in 1..Len(series) : SameCell(series[i].key, key)].val

\* The series left with the labels the data gave it.
reindex_present_only(series, index, fill) == series

\* series.reindex(index, fill_value=fill): one entry per label of index, in
\* index's order; a label the series lacks gets fill (NaN when none is given).
reindex(series, index, fill) ==
    [i \in 1..Len(index) |->
        Entry(index[i], IF HasKey(series, index[i]) THEN ValueOf(series, index[i]) ELSE fill)]

\* series.fillna(0)
fillna0(series) ==
    [i \in 1..Len(series) |->
        Entry(series[i].key, IF isna(series[i].val) THEN Num(0) ELSE series[i].val)]

\* range(1, 13)
MonthIndex == [m \in 1..12 |-> Num(m)]

\* order = ['Monday', ..., 'Sunday']
WeekdayOrder == [i \in 1..7 |-> Str(WeekdayNames[i])]

\* seasons_order
seasons_order == <<Str(Winter), Str(Spring), Str(Summer), Str(Fall)>>

----------------------------------------------------------------------------
(* Top-N and the holiday window *)

RECURSIVE InsertLargest(_, _, _)
\* Position i placed behind every position whose value is not smaller.
InsertLargest(sorted, i, cells) ==
    IF sorted = <<>> THEN <<i>>
    ELSE IF cells[sorted[Len(sorted)]].v >= cells[i].v THEN Append(sorted, i)
    ELSE Append(InsertLargest(SubSeq(sorted, 1, Len(sorted) - 1), i, cells),
                sorted[Len(sorted)])

\* The positions in the order given, whatever their values.
LargestFirstUnordered(positions, cells) == positions

RECURSIVE LargestFirst(_, _)
\* The given positions ordered by value, largest first, equal values in the
\* order given (keep='first').
LargestFirst(positions, cells) ==
    IF positions = <<>> THEN <<>>
    ELSE InsertLargest(LargestFirst(SubSeq(positions, 1, Len(positions) - 1), cells),
                       positions[Len(positions)], cells)

nlargest_raises(d, column) == d.col[column].dtype = "object"

\* df.nlargest(n, column) on a numeric column: the non-missing rows largest
\* first, then the rows with a missing value in table order, cut to n rows;
\* no row when n <= 0.
nlargest(d, n, column) ==
    LET cells == d.col[column].v
        dropped == Ascending({i \in 1..Len(cells) : notna(cells[i])})
        nan_index == Ascending({i \in 1..Len(cells) : isna(cells[i])})
    IN IF n <= 0 THEN TakeRows(d, <<>>)
       ELSE TakeRows(d, Take(LargestFirst(dropped, cells) \o nan_index, n))

Abs(x) == IF x < 0 THEN -x ELSE x

\* A day count that drops the fraction of a day, towards zero.
timedelta_days_truncated(x, d) ==
    IF x >= d THEN (x - d) \div 24 ELSE -((d - x) \div 24)

\* (x - d).days for two timestamps: Timedelta.days rounds towards minus infinity.
timedelta_days(x, d) == (x - d) \div 24

\* The default important_dates of holiday_release_analysis.
default_important_dates ==
    <<DateText(2023, 1, 1, 0), DateText(2023, 2, 14, 0), DateText(2023, 7, 4, 0),
      DateText(2023, 10, 31, 0), DateText(2023, 12, 25, 0)>>

\* The lambda of line 155 on one value of the column.
holiday_mask(x, important, window_days) ==
    IF notna(x)
    THEN \E j \in 1..Len(important) :
            Abs(timedelta_days(x.v, important[j].v)) <= window_days
    ELSE FALSE

\* x - d raises TypeError for a value that is present and is no timestamp.
holiday_mask_raises(cells) == \E i \in 1..Len(cells) : notna(cells[i]) /\ cells[i].k # "ts"

EmptyFrame == [idx |-> <<>>, col |-> <<>>]

Result(raised, d, out, written, rd, ret) ==
    [raised |-> raised, df |-> d, out |-> out, written |-> written, reads |-> rd,
     ret |-> ret]

Written(name, data) == [name |-> name, data |-> data]

Read(role, col) == [role |-> role, col |-> col]

\* holiday_release_analysis(df, important_dates, window_days); important_dates
\* is [none |-> TRUE] for None or [none |-> FALSE, dates |-> <<texts>>].
holiday_release_analysis(d, important_dates, window_days) ==
    LET texts == IF important_dates.none THEN default_important_dates
                 ELSE important_dates.dates
        important == [j \in 1..Len(texts) |-> to_datetime(texts[j])]
    IN
    IF "Release Date" \notin Columns(d)
    THEN Result(NoException, d,
                <<[msg |-> "Skipping holiday analysis: 'Release Date' missing."]>>,
                <<>>, {}, EmptyFrame)
    ELSE
    LET cells == d.col["Release Date"].v IN
    IF holiday_mask_raises(cells)
    THEN Result("TypeError", d, <<>>, <<>>, {Read("date", "Release Date")}, EmptyFrame)
    ELSE
    LET holiday_releases ==
            TakeRows(d, Ascending({i \in 1..Len(cells) :
                                      holiday_mask(cells[i], important, window_days)}))
    IN
    IF NRows(holiday_releases) = 0
    THEN Result(NoException, d,
                <<[msg |-> "No releases found within the specified windows around important dates."]>>,
                <<>>, {Read("date", "Release Date")}, holiday_releases)
    ELSE Result(NoException, d,
                <<[msg |-> "Saved holiday releases table", name |-> "holiday_releases.csv"]>>,
                <<Written("holiday_releases.csv", holiday_releases)>>,
                {Read("date", "Release Date")}, holiday_releases)

----------------------------------------------------------------------------
(* The consumer steps.  Each yields a Result: the exception raised (or     *)
(* none), the table as the step leaves it, what it showed, what it wrote,  *)
(* which columns it read as metric or date, and its return value.          *)

\* save_fig(fig, name) in the batch run, st.plotly_chart(fig) in the dashboard.
Show(web, d, name, chart, rd) ==
    IF web
    THEN Result(NoException, d, <<[msg |-> "plotly_chart", name |-> name, chart |-> chart]>>,
                <<>>, rd, EmptyFrame)
    ELSE Result(NoException, d, <<[msg |-> "Saved interactive plot", name |-> name]>>,
                <<Written(name, chart)>>, rd, EmptyFrame)

\* A step skipped: the batch run prints, the dashboard writes on the page.
Skipped(d, step, missing) ==
    Result(NoException, d, <<[msg |-> "Skipping", step |-> step, missing |-> missing]>>,
           <<>>, {}, EmptyFrame)

Raised(exc, d, rd) == Result(exc, d, <<>>, <<>>, rd, EmptyFrame)

HoursRead == {Read("viewership", "Hours Viewed")}

\* plot_viewership_by_content_type(df); run_dashboard lines 196-203.
plot_viewership_by_content_type(d, web) ==
    IF "Content Type" \notin Columns(d) THEN Skipped(d, "content_type", "Content Type")
    ELSE IF "Hours Viewed" \notin Columns(d) THEN Raised("KeyError", d, {})
    ELSE Show(web, d, "viewership_by_content_type",
              <<sort_values_descending(groupby_sum(d, "Content Type", "Hours Viewed"))>>,
              HoursRead)

\* plot_viewership_by_language(df, lang_col); run_dashboard lines 205-212.
plot_viewership_by_language(d, lang_col, web) ==
    IF lang_col \notin Columns(d) THEN Skipped(d, "language", lang_col)
    ELSE IF "Hours Viewed" \notin Columns(d) THEN Raised("KeyError", d, {})
    ELSE Show(web, d, "viewership_by_language",
              <<sort_values_descending(groupby_sum(d, lang_col, "Hours Viewed"))>>,
              HoursRead)

\* plot_monthly_viewership(df); run_dashboard lines 214-221.
plot_monthly_viewership(d, web) ==
    IF "Release Month" \notin Columns(d) THEN Skipped(d, "monthly", "Release Month")
    ELSE IF "Hours Viewed" \notin Columns(d) THEN Raised("KeyError", d, {})
    ELSE Show(web, d, "monthly_viewership",
              <<reindex(groupby_sum(d, "Release Month", "Hours Viewed"), MonthIndex, Num(0))>>,
              HoursRead)

\* df.pivot_table(index='Release Month', columns='Content Type',
\* values='Hours Viewed', aggfunc='sum').reindex(range(1,13)).fillna(0): one
\* series over the months 1..12 per content type that has a dated row.
pivot_by_type_and_month(d) ==
    LET months == d.col["Release Month"].v
        types == d.col["Content Type"].v
        dated == {i \in 1..Len(types) : notna(types[i]) /\ notna(months[i])}
        keys == SortedCells({types[i] : i \in dated})
        cell(key, m) == Ascending({i \in dated : SameCell(types[i], key)
                                                 /\ SameCell(months[i], m)})
    IN [g \in 1..Len(keys) |->
           [name |-> keys[g],
            series |-> [i \in 1..12 |->
                Entry(MonthIndex[i],
                      IF cell(keys[g], MonthIndex[i]) = <<>> THEN Num(0)
                      ELSE SumAt(d.col["Hours Viewed"], cell(keys[g], MonthIndex[i])))]]]

\* plot_viewership_by_type_and_month(df); run_dashboard lines 223-232.
plot_viewership_by_type_and_month(d, web) ==
    IF "Content Type" \notin Columns(d) THEN Skipped(d, "type_month", "Content Type")
    ELSE IF {"Hours Viewed", "Release Month"} \ Columns(d) # {} THEN Raised("KeyError", d, {})
    ELSE Show(web, d, "monthly_viewership_by_type", pivot_by_type_and_month(d), HoursRead)

\* df['Release Season'] = df['Release Month'].apply(get_season)
with_release_season(d) ==
    LET months == d.col["Release Month"].v IN
    SetColumn(d, "Release Season",
              Column("object", [i \in 1..Len(months) |-> get_season(months[i])]))

\* plot_seasonal_viewership(df); run_dashboard lines 234-244.
plot_seasonal_viewership(d, web) ==
    IF "Release Month" \notin Columns(d) THEN Skipped(d, "seasonal", "Release Month")
    ELSE IF "Hours Viewed" \notin Columns(d) THEN Raised("KeyError", with_release_season(d), {})
    ELSE Show(web, with_release_season(d), "seasonal_viewership",
              <<fillna0(reindex(groupby_sum(with_release_season(d), "Release Season",
                                            "Hours Viewed"),
                                seasons_order, NA))>>,
              HoursRead)

\* monthly_releases_and_viewership(df); run_dashboard lines 246-253.
monthly_releases_and_viewership(d, web) ==
    IF "Release Month" \notin Columns(d) THEN Raised("KeyError", d, {})
    ELSE IF "Hours Viewed" \notin Columns(d) THEN Raised("KeyError", d, {})
    ELSE Show(web, d, "monthly_releases_and_viewership",
              <<reindex(value_counts(d.col["Release Month"].v), MonthIndex, Num(0)),
                reindex(groupby_sum(d, "Release Month", "Hours Viewed"), MonthIndex, Num(0))>>,
              HoursRead)

\* weekday_release_patterns(df); run_dashboard lines 255-266.
weekday_release_patterns(d, web) ==
    IF "Release Day" \notin Columns(d) THEN Skipped(d, "weekday", "Release Day")
    ELSE IF "Hours Viewed" \notin Columns(d) THEN Raised("KeyError", d, {})
    ELSE Show(web, d, "weekday_release_patterns",
              <<fillna0(reindex(value_counts(d.col["Release Day"].v), WeekdayOrder, NA)),
                fillna0(reindex(groupby_sum(d, "Release Day", "Hours Viewed"),
                                WeekdayOrder, NA))>>,
              HoursRead)

TopColumns == {"Title", "Hours Viewed", "Language Indicator", "Content Type", "Release Date"}

\* top[cols]
SelectColumns(d, cols) == [idx |-> d.idx, col |-> [c \in cols \cap Columns(d) |-> d.col[c]]]

\* print_top_titles(df, n); run_dashboard lines 268-274.
print_top_titles(d, n, web) ==
    IF "Hours Viewed" \notin Columns(d) THEN Skipped(d, "top_titles", "Hours Viewed")
    ELSE IF nlargest_raises(d, "Hours Viewed") THEN Raised("TypeError", d, HoursRead)
    ELSE Result(NoException, d,
                <<[msg |-> "Top titles",
                   top |-> SelectColumns(nlargest(d, n, "Hours Viewed"), TopColumns)]>>,
                <<>>, HoursRead, EmptyFrame)

\* Lines 276-279 of run_dashboard: the holiday table is also put on the page.
holiday_step(d, kwargs, web) ==
    LET r == holiday_release_analysis(d, kwargs.important_dates, kwargs.window_days) IN
    IF web /\ r.raised = NoException /\ NRows(r.ret) # 0
    THEN [r EXCEPT !.out = Append(r.out, [msg |-> "Holiday Releases", table |-> r.ret])]
    ELSE r

----------------------------------------------------------------------------
(* The run *)

\* A run that charts the content types before it has parsed the dates.
StepOrderChartFirst(web) ==
    <<"load_data", "clean_hours", "content_type", "prepare_dates", "language",
      "monthly", "type_month", "seasonal", "monthly_releases", "weekday",
      "holiday", "top_titles", "finish">>

\* The order of the calls in main (lines 284-311) and in run_dashboard, where
\* the top titles come before the holiday table (lines 268-279).
StepOrder(web) ==
    IF web
    THEN <<"load_data", "clean_hours", "prepare_dates", "content_type", "language",
           "monthly", "type_month", "seasonal", "monthly_releases", "weekday",
           "top_titles", "holiday", "finish">>
    ELSE <<"load_data", "clean_hours", "prepare_dates", "content_type", "language",
           "monthly", "type_month", "seasonal", "monthly_releases", "weekday",
           "holiday", "top_titles", "finish">>

NextPc(step, web) ==
    LET order == StepOrder(web)
        i == CHOOSE j \in 1..Len(order) : order[j] = step
    IN IF i = Len(order) THEN "done" ELSE order[i + 1]

RECURSIVE WriteAll(_, _)
\* The artifacts of a step written into outputs/, a later one replacing an
\* earlier one of the same name.
WriteAll(fs, written) ==
    IF written = <<>> THEN fs
    ELSE WriteAll([n \in (DOMAIN fs) \cup {Head(written).name} |->
                      IF n = Head(written).name THEN Head(written).data ELSE fs[n]],
                  Tail(written))

\* An exception nothing catches: the traceback is shown and the run ends; the
\* batch process exits with status 1.
Uncaught(exc) == [msg |-> "Traceback", exc |-> exc]

\* One step of the run with result r: its effects, then the next step, or the
\* end of the run when it raised.
Step(name, r) ==
    /\ pc = name
    /\ ran' = Append(ran, name)
    /\ df' = r.df
    /\ reads' = reads \cup r.reads
    /\ files' = WriteAll(files, r.written)
    /\ IF r.raised # NoException
       THEN /\ stdout' = stdout \o r.out \o <<Uncaught(r.raised)>>
            /\ pc' = "aborted"
            /\ exit_code' = IF args.web THEN exit_code ELSE <<1>>
       ELSE /\ stdout' = stdout \o r.out
            /\ pc' = NextPc(name, args.web)
            /\ UNCHANGED exit_code
    /\ UNCHANGED <<file, args, holiday_kwargs>>

load_data_raises(f) == ~f.exists

\* Lines 283-289 of main and 179-185 of run_dashboard: a failed load is
\* reported; main then exits with status 1 and run_dashboard returns.
LoadData ==
    /\ pc = "load_data"
    /\ ran' = Append(ran, "load_data")
    /\ IF load_data_raises(file)
       THEN /\ stdout' = Append(stdout, [msg |-> "Error loading data",
                                         exc |-> "FileNotFoundError"])
            /\ pc' = "aborted"
            /\ exit_code' = IF args.web THEN exit_code ELSE <<1>>
            /\ UNCHANGED df
       ELSE /\ df' = file.table
            /\ stdout' = Append(stdout, [msg |-> "Loaded data",
                                         rows |-> NRows(file.table),
                                         columns |-> Cardinality(Columns(file.table))])
            /\ pc' = NextPc("load_data", args.web)
            /\ UNCHANGED exit_code
    /\ UNCHANGED <<file, args, holiday_kwargs, files, reads>>

\* Line 292 / 188.
CleanHours ==
    Step("clean_hours",
         IF clean_hours_raises(df, args.hours_col) THEN Raised("KeyError", df, {})
         ELSE LET r == clean_hours(df, args.hours_col) IN
              Result(NoException, r.df, r.out, <<>>, {}, EmptyFrame))

\* Lines 293-296 / 189-193.
PrepareDates ==
    Step("prepare_dates",
         IF prepare_dates_raises(df, args.date_col) THEN Raised("KeyError", df, {})
         ELSE LET r == prepare_dates(df, args.date_col) IN
              Result(NoException, r.df,
                     r.out \o <<[msg |-> "Columns available", columns |-> Columns(r.df)]>>,
                     <<>>, {}, EmptyFrame))

PlotContentType == Step("content_type", plot_viewership_by_content_type(df, args.web))

PlotLanguage ==
    Step("language", plot_viewership_by_language(df, args.language_col, args.web))

PlotMonthly == Step("monthly", plot_monthly_viewership(df, args.web))

PlotTypeAndMonth == Step("type_month", plot_viewership_by_type_and_month(df, args.web))

PlotSeasonal == Step("seasonal", plot_seasonal_viewership(df, args.web))

MonthlyReleases == Step("monthly_releases", monthly_releases_and_viewership(df, args.web))

WeekdayPatterns == Step("weekday", weekday_release_patterns(df, args.web))

HolidayAnalysis == Step("holiday", holiday_step(df, holiday_kwargs, args.web))

TopTitles == Step("top_titles", print_top_titles(df, args.top_n, args.web))

\* Line 311: the batch run's last line, after which the process exits with
\* status 0; run_dashboard just returns.
Finish ==
    /\ pc = "finish"
    /\ ran' = Append(ran, "finish")
    /\ pc' = NextPc("finish", args.web)
    /\ stdout' = IF args.web THEN stdout
                 ELSE Append(stdout, [msg |-> "All interactive plots and tables have been saved"])
    /\ exit_code' = IF args.web THEN exit_code ELSE <<0>>
    /\ UNCHANGED <<file, args, holiday_kwargs, df, files, reads>>

Next ==
    \/ LoadData
    \/ CleanHours
    \/ PrepareDates
    \/ PlotContentType
    \/ PlotLanguage
    \/ PlotMonthly
    \/ PlotTypeAndMonth
    \/ PlotSeasonal
    \/ MonthlyReleases
    \/ WeekdayPatterns
    \/ HolidayAnalysis
    \/ TopTitles
    \/ Finish

----------------------------------------------------------------------------
(* Inputs *)

DefaultTopN == 5

DefaultWindowDays == 3

\* The defaults of the argument parser (lines 316-321).
DefaultArgs ==
    [hours_col |-> "Hours Viewed", date_col |-> "Release Date",
     language_col |-> "Language Indicator", top_n |-> DefaultTopN, web |-> FALSE]

\* holiday_release_analysis(df): important_dates=None, window_days=3.
DefaultHolidayKwargs == [important_dates |-> [none |-> TRUE], window_days |-> DefaultWindowDays]

NoFile == [exists |-> FALSE]

CsvFile(table) == [exists |-> TRUE, table |-> table]

\* A table of n rows with the given columns, labelled 1..n as read_csv does.
Table(n, col) == [idx |-> [i \in 1..n |-> i], col |-> col]

SeqsUpTo(S, n) == UNION {[1..k -> S] : k \in 0..n}

\* The state at process start, before main or run_dashboard has run a line.
Start(f, a, kw) ==
    /\ file = f
    /\ args = a
    /\ holiday_kwargs = kw
    /\ df = EmptyFrame
    /\ pc = "load_data"
    /\ ran = <<>>
    /\ stdout = <<>>
    /\ files = <<>>
    /\ reads = {}
    /\ exit_code = <<>>

(* Spec: runs over every schema and configuration, on two-row sample data. *)

HoursLike == {"Hours Viewed", "Views"}

DateLike == {"Release Date", "Date"}

Categorical == {"Content Type", "Language Indicator", "Lang"}

\* A sample column of each kind: viewership as text (read_csv leaves a column
\* with separators as object) or as integers, dates as text, categories.
SampleColumn(name, kind) ==
    IF name \in HoursLike
    THEN IF kind = "object"
         THEN Column("object", <<Str(<<"1", ",", "2", "3", "4">>), Str(<<" ", "5", "0", "0", " ">>)>>)
         ELSE Column("int64", <<Num(10), Num(20)>>)
    ELSE IF name \in DateLike
    THEN Column("object", <<DateText(2023, 12, 24, 0), DateText(2023, 7, 20, 0)>>)
    ELSE Column("object", <<Str(<<"A">>), Str(<<"B">>)>>)

SampleTables ==
    {Table(2, [c \in present \cup {"Title"} |->
                  SampleColumn(c, IF c \in ints THEN "int64" ELSE "object")]) :
        present \in SUBSET (HoursLike \cup DateLike \cup Categorical),
        ints \in SUBSET HoursLike}

ArgsSpace ==
    [hours_col : HoursLike, date_col : DateLike,
     language_col : {"Language Indicator", "Lang"}, top_n : {DefaultTopN}, web : BOOLEAN]

Init ==
    \E f \in {NoFile} \cup {CsvFile(t) : t \in SampleTables}, a \in ArgsSpace :
        Start(f, a, DefaultHolidayKwargs)

Spec == Init /\ [][Next]_vars

----------------------------------------------------------------------------
(* Claims about the run (Spec) *)

Preprocessing == {"load_data", "clean_hours", "prepare_dates"}

Consumers ==
    {"content_type", "language", "monthly", "type_month", "seasonal",
     "monthly_releases", "weekday", "holiday", "top_titles"}

LastRan == ran[Len(ran)]

\* C1 (as claimed): in a batch run whose loading, numeric cleaning and date
\* parsing succeeded, no downstream step aborts the run: a run that has
\* aborted did so in one of the three preprocessing steps.
C1_DownstreamNeverAborts ==
    (~args.web /\ pc = "aborted") => LastRan \in Preprocessing

\* C10 (as claimed): every column a consumer step reads as the viewership
\* metric is the column clean_hours coerced in this run (args.hours_col), and
\* every column it reads as the release date is the one prepare_dates parsed
\* (args.date_col).
C10_ConsumersReadPreparedColumns ==
    \A r \in reads :
        /\ r.role = "viewership" => r.col = args.hours_col
        /\ r.role = "date" => r.col = args.date_col

\* The three preprocessing steps ran first, in order, and succeeded: the file
\* was there and the table now holds the coerced viewership column and the
\* parsed date column.
PreprocessingSucceeded ==
    /\ Len(ran) >= 3
    /\ SubSeq(ran, 1, 3) = <<"load_data", "clean_hours", "prepare_dates">>
    /\ file.exists
    /\ args.hours_col \in Columns(df)
    /\ df.col[args.hours_col].dtype \in {"int64", "float64"}
    /\ args.date_col \in Columns(df)
    /\ df.col[args.date_col].dtype = "datetime64"

\* C2: the steps run in the order load, clean_hours, prepare_dates, then the
\* consumers; no consumer runs and no artifact is written unless the three
\* preprocessing steps succeeded; a batch run whose file is missing ends with
\* a non-zero status right after reporting the load error; a run whose hours
\* or date column is absent aborts before any consumer; and the run is
\* finite: until it has completed or aborted, the step it is at is one it
\* has not run yet.
C2_PreprocessingGatesConsumers ==
    /\ \A i \in 1..Len(ran) :
          /\ ran[i] = "load_data" => i = 1
          /\ ran[i] = "clean_hours" => i = 2
          /\ ran[i] = "prepare_dates" => i = 3
          /\ ran[i] \in Consumers => i > 3 /\ PreprocessingSucceeded
    /\ DOMAIN files # {} => PreprocessingSucceeded
    /\ (ran # <<>> /\ ~file.exists) =>
          /\ ran = <<"load_data">>
          /\ pc = "aborted"
          /\ stdout = <<[msg |-> "Error loading data", exc |-> "FileNotFoundError"]>>
          /\ ~args.web => exit_code = <<1>>
    /\ (file.exists /\ {args.hours_col, args.date_col} \ Columns(file.table) # {}) =>
          /\ \A i \in 1..Len(ran) : ran[i] \notin Consumers
          /\ Len(ran) >= 3 => pc = "aborted"
    /\ \/ pc \in {"done", "aborted"}
       \/ pc \in (Preprocessing \cup Consumers \cup {"finish"}) \ Range(ran)
    /\ pc = "done" <=> (ran # <<>> /\ LastRan = "finish")

\* A batch run that completed, its consumers run and its charts written.
C2_Witness ==
    /\ pc = "done"
    /\ ~args.web
    /\ exit_code = <<0>>
    /\ "monthly_viewership" \in DOMAIN files
    /\ Len(ran) = Len(StepOrder(FALSE))

----------------------------------------------------------------------------
(* SpecClean: clean_hours on every viewership column of up to MaxRows rows, *)
(* and clean_hours run once more on its own result.                        *)

MaxRows == 3

\* Viewership as read_csv leaves it in an object column.
HoursTexts ==
    {<<"1", ",", "2", "3", "4">>, <<" ", "5", "0", "0", " ">>, <<"a", "b", "c">>,
     <<"7">>, <<" ", "1", ",", "0", " ">>, <<"1", " ", "2">>, <<",">>, <<>>}

ObjectHoursCells == {Str(t) : t \in HoursTexts} \cup {NA}

NumericHoursCells == {Num(7), Num(1234), NA}

\* The viewership columns a loaded table can hold: text, or numbers (int64
\* when none is missing, float64 otherwise or when the file wrote decimals).
HoursColumns(n) ==
    {Column("object", v) : v \in SeqsUpTo(ObjectHoursCells, n)}
    \cup {Column(IF CountNA(v) = 0 THEN "int64" ELSE "float64", v) :
             v \in SeqsUpTo(NumericHoursCells, n)}
    \cup {Column("float64", v) : v \in SeqsUpTo(NumericHoursCells, n)}

InitClean ==
    \E column \in HoursColumns(MaxRows) :
        Start(CsvFile(Table(Len(column.v), [c \in {"Hours Viewed"} |-> column])),
              DefaultArgs, DefaultHolidayKwargs)

\* clean_hours(df, col) called again on the table the first call returned.
CleanAgain ==
    /\ pc = "prepare_dates"
    /\ LET r == clean_hours(df, args.hours_col) IN
          /\ df' = r.df
          /\ stdout' = stdout \o r.out
    /\ ran' = Append(ran, "clean_hours")
    /\ pc' = "cleaned_again"
    /\ UNCHANGED <<file, args, holiday_kwargs, files, reads, exit_code>>

NextClean == LoadData \/ CleanHours \/ CleanAgain

SpecClean == InitClean /\ [][NextClean]_vars

DigitTable ==
    [c \in Digits |->
        CASE c = "0" -> 0 [] c = "1" -> 1 [] c = "2" -> 2 [] c = "3" -> 3 [] c = "4" -> 4
          [] c = "5" -> 5 [] c = "6" -> 6 [] c = "7" -> 7 [] c = "8" -> 8 [] c = "9" -> 9]

RECURSIVE Pow10(_)
Pow10(n) == IF n = 0 THEN 1 ELSE 10 * Pow10(n - 1)

RECURSIVE SumOver(_, _)
\* The sum of f over the finite set S of its domain.
SumOver(f, S) ==
    IF S = {} THEN 0
    ELSE LET x == CHOOSE y \in S : TRUE IN f[x] + SumOver(f, S \ {x})

\* What the claim says of one text: drop the commas; if what is left is a
\* run of digits surrounded by blanks only, it is that number, else missing.
NumberIn(s) ==
    LET core == SelectSeq(s, LAMBDA ch : ch # ",")
        n == Len(core)
        runs == {<<i, j>> \in (1..n) \X (1..n) :
                    /\ i <= j
                    /\ \A k \in 1..n : IF k < i \/ k > j THEN core[k] = " "
                                       ELSE core[k] \in Digits}
    IN IF runs = {} THEN NA
       ELSE LET r == CHOOSE x \in runs : TRUE IN
            Num(SumOver([k \in r[1]..r[2] |-> DigitTable[core[k]] * Pow10(r[2] - k)],
                        r[1]..r[2]))

\* What the claim says of one value of the column.
CleanedValue(c) == IF c.k = "str" THEN NumberIn(c.v) ELSE c

CellsAgree(a, b) == a.k = b.k /\ (a.k = "num" => a.v = b.v)

\* C8: once clean_hours has run, every value of the column is the number its
\* text denotes with commas and surrounding blanks removed, or missing when
\* there is none (or the value was missing); the rows are those of the input,
\* in order; and a warning carrying the number of missing values was printed
\* if and only if that number is not zero.
C8_CleanHoursCoercesEachValue ==
    (pc = "prepare_dates") =>
        LET before == file.table.col[args.hours_col].v
            after == df.col[args.hours_col].v
            missing == Cardinality({i \in 1..Len(after) : isna(CleanedValue(before[i]))})
            printed == SubSeq(stdout, 2, Len(stdout))
        IN /\ df.idx = file.table.idx
           /\ Len(after) = Len(before)
           /\ \A i \in 1..Len(before) : CellsAgree(after[i], CleanedValue(before[i]))
           /\ IF missing = 0 THEN printed = <<>>
              ELSE printed = <<[msg |-> "Warning: rows have NaN after cleaning",
                                col |-> args.hours_col, count |-> missing]>>

\* The spec's scenario: "1,234", " 500 ", "abc" clean to 1234, 500, missing
\* with one missing value reported.
C8_Witness ==
    /\ pc = "prepare_dates"
    /\ file.table.col["Hours Viewed"].v =
          <<Str(<<"1", ",", "2", "3", "4">>), Str(<<" ", "5", "0", "0", " ">>),
            Str(<<"a", "b", "c">>)>>
    /\ df.col["Hours Viewed"].v = <<Num(1234), Num(500), NA>>
    /\ stdout[Len(stdout)].msg = "Warning: rows have NaN after cleaning"
    /\ stdout[Len(stdout)].count = 1

\* C9: the second application of clean_hours leaves every value of the
\* column as the first left it (numbers equal, missing still missing), and
\* reports the same number of missing values.
C9_CleanHoursIdempotent ==
    [][pc' = "cleaned_again" =>
          LET first == df.col[args.hours_col].v
              second == df'.col[args.hours_col].v
          IN /\ Len(second) = Len(first)
             /\ \A i \in 1..Len(first) : CellsAgree(second[i], first[i])
             /\ CountNA(second) = CountNA(first)
             /\ IF CountNA(first) = 0 THEN stdout' = stdout
                ELSE /\ Len(stdout') = Len(stdout) + 1
                     /\ stdout'[Len(stdout')] = stdout[Len(stdout)]]_vars

\* A column of text cleaned twice, holding a number and a missing value.
C9_Witness ==
    /\ pc = "cleaned_again"
    /\ file.table.col["Hours Viewed"].v = <<Str(<<"1", ",", "2", "3", "4">>), Str(<<"a", "b", "c">>)>>
    /\ df.col["Hours Viewed"].v = <<Num(1234), NA>>

----------------------------------------------------------------------------
(* SpecGroup: the run up to the two group-sum charts, over every table of   *)
(* up to MaxRows rows of a category and a viewership value.                *)

GroupHours == {Num(5), Num(10), Num(20), NA}

GroupKeysIn == {Str(<<"A">>), Str(<<"B">>), NA}

AnyDate == DateText(2023, 7, 4, 0)

\* The dtype read_csv gives a column of whole numbers: object without rows,
\* float64 with a missing value among them.
HoursDtype(v) ==
    IF v = <<>> THEN "object" ELSE IF CountNA(v) = 0 THEN "int64" ELSE "float64"

\* The dtype read_csv gives a column of texts: float64 when every row is
\* missing.
TextDtype(v) == IF v # <<>> /\ CountNA(v) = Len(v) THEN "float64" ELSE "object"

\* A table of the rows given as <<category, hours>> pairs, the category in
\* column `by`, every row released on the same day.
GroupTable(rows, by) ==
    Table(Len(rows),
          [c \in {by, "Hours Viewed", "Release Date"} |->
              IF c = by THEN Column(TextDtype([i \in 1..Len(rows) |-> rows[i][1]]),
                                      [i \in 1..Len(rows) |-> rows[i][1]])
              ELSE IF c = "Hours Viewed"
              THEN Column(HoursDtype([i \in 1..Len(rows) |-> rows[i][2]]),
                          [i \in 1..Len(rows) |-> rows[i][2]])
              ELSE Column("object", [i \in 1..Len(rows) |-> AnyDate])])

InitGroup ==
    \E rows \in SeqsUpTo(GroupKeysIn \X GroupHours, MaxRows),
       by \in {"Content Type", "Language Indicator"} :
        Start(CsvFile(GroupTable(rows, by)), DefaultArgs, DefaultHolidayKwargs)

NextGroup == LoadData \/ CleanHours \/ PrepareDates \/ PlotContentType \/ PlotLanguage

SpecGroup == InitGroup /\ [][NextGroup]_vars

\* The viewership of row i of the input, a missing value counting nothing.
InputHours(i) ==
    LET c == file.table.col["Hours Viewed"].v[i] IN IF isna(c) THEN 0 ELSE c.v

\* The sum of the viewership of the rows of the input whose cell in column
\* `by` is `key`.
InputSumWhere(by, key) ==
    LET cells == file.table.col[by].v
        rows == {i \in 1..Len(cells) : SameCell(cells[i], key)}
    IN SumOver([i \in rows |-> InputHours(i)], rows)

\* The series is the group-sum of column `by`: one entry per distinct
\* non-missing key, each the sum of exactly the rows with that key, entries
\* ordered by summed value descending.
IsGroupSum(series, by) ==
    LET cells == file.table.col[by].v
        keys == {cells[i] : i \in {j \in 1..Len(cells) : notna(cells[j])}}
    IN /\ Len(series) = Cardinality(keys)
       /\ {series[i].key : i \in 1..Len(series)} = keys
       /\ \A i \in 1..Len(series) : series[i].val = Num(InputSumWhere(by, series[i].key))
       /\ \A i, j \in 1..Len(series) : i < j => series[i].val.v >= series[j].val.v

\* C6: the charts by content type and by language plot the group-sum of
\* their column.
C6_GroupSumPerKeyDescending ==
    /\ "viewership_by_content_type" \in DOMAIN files =>
          IsGroupSum(files["viewership_by_content_type"][1], "Content Type")
    /\ "viewership_by_language" \in DOMAIN files =>
          IsGroupSum(files["viewership_by_language"][1], "Language Indicator")

\* The spec's scenario: rows A:10, A:20, B:5 give A = 30 before B = 5.
C6_Witness ==
    /\ "viewership_by_content_type" \in DOMAIN files
    /\ file.table.col["Content Type"].v = <<Str(<<"A">>), Str(<<"A">>), Str(<<"B">>)>>
    /\ file.table.col["Hours Viewed"].v = <<Num(10), Num(20), Num(5)>>
    /\ files["viewership_by_content_type"][1] =
          <<Entry(Str(<<"A">>), Num(30)), Entry(Str(<<"B">>), Num(5))>>

----------------------------------------------------------------------------
(* SpecTime: the run up to the weekday chart, over every table of up to     *)
(* MaxDatedRows rows of a release date and a viewership value.             *)

MaxDatedRows == 2

TimeHours == {Num(5), Num(10), NA}

\* Sunday 24 and Monday 25 December 2023, Tuesday 4 July 2023, a text that
\* names no date, and a missing date.
TimeDates ==
    {DateText(2023, 12, 24, 0), DateText(2023, 12, 25, 0), DateText(2023, 7, 4, 0),
     DateText(2023, 2, 30, 0), NA}

\* A table of the rows given as <<date, hours>> pairs.
DatedTable(rows) ==
    Table(Len(rows),
          [c \in {"Hours Viewed", "Release Date"} |->
              IF c = "Hours Viewed"
              THEN Column(HoursDtype([i \in 1..Len(rows) |-> rows[i][2]]),
                          [i \in 1..Len(rows) |-> rows[i][2]])
              ELSE Column(TextDtype([i \in 1..Len(rows) |-> rows[i][1]]),
                          [i \in 1..Len(rows) |-> rows[i][1]])])

InitTime ==
    \E rows \in SeqsUpTo(TimeDates \X TimeHours, MaxDatedRows) :
        Start(CsvFile(DatedTable(rows)), DefaultArgs, DefaultHolidayKwargs)

NextTime ==
    \/ LoadData
    \/ CleanHours
    \/ PrepareDates
    \/ PlotContentType
    \/ PlotLanguage
    \/ PlotMonthly
    \/ PlotTypeAndMonth
    \/ PlotSeasonal
    \/ MonthlyReleases
    \/ WeekdayPatterns

SpecTime == InitTime /\ [][NextTime]_vars

\* The sum of the viewership of the rows whose cell in the derived column
\* `by` is `key`: 0 when there is no such row.
DerivedSumWhere(by, key) ==
    LET cells == df.col[by].v
        rows == {i \in 1..Len(cells) : SameCell(cells[i], key)}
    IN SumOver([i \in rows |-> InputHours(i)], rows)

\* The series has exactly the labels of `domain`, in that order, each with
\* the sum of the viewership of the rows of that label.
IsSumOverDomain(series, by, domain) ==
    /\ Len(series) = Len(domain)
    /\ \A i \in 1..Len(domain) :
          /\ series[i].key = domain[i]
          /\ series[i].val = Num(DerivedSumWhere(by, domain[i]))

Months1To12 ==
    <<Num(1), Num(2), Num(3), Num(4), Num(5), Num(6), Num(7), Num(8), Num(9), Num(10),
      Num(11), Num(12)>>

MondayToSunday ==
    <<Str(<<"M", "o", "n", "d", "a", "y">>), Str(<<"T", "u", "e", "s", "d", "a", "y">>),
      Str(<<"W", "e", "d", "n", "e", "s", "d", "a", "y">>),
      Str(<<"T", "h", "u", "r", "s", "d", "a", "y">>), Str(<<"F", "r", "i", "d", "a", "y">>),
      Str(<<"S", "a", "t", "u", "r", "d", "a", "y">>), Str(<<"S", "u", "n", "d", "a", "y">>)>>

\* C4: the by-month viewership sum has the 12 entries 1..12 in order and the
\* by-weekday viewership sum the 7 entries Monday..Sunday in order, each the
\* sum of the viewership of the rows with that key and 0 for a key without
\* rows.
C4_ReindexedSumsCoverDomain ==
    /\ "monthly_viewership" \in DOMAIN files =>
          IsSumOverDomain(files["monthly_viewership"][1], "Release Month", Months1To12)
    /\ "monthly_releases_and_viewership" \in DOMAIN files =>
          IsSumOverDomain(files["monthly_releases_and_viewership"][2], "Release Month",
                          Months1To12)
    /\ "weekday_release_patterns" \in DOMAIN files =>
          IsSumOverDomain(files["weekday_release_patterns"][2], "Release Day",
                          MondayToSunday)

\* Two December releases on different weekdays: December holds their sum,
\* every other month 0, Sunday and Monday one value each.
C4_Witness ==
    /\ "weekday_release_patterns" \in DOMAIN files
    /\ file.table.col["Release Date"].v = <<DateText(2023, 12, 24, 0), DateText(2023, 12, 25, 0)>>
    /\ file.table.col["Hours Viewed"].v = <<Num(5), Num(10)>>
    /\ files["monthly_viewership"][1][12].val = Num(15)
    /\ files["monthly_viewership"][1][7].val = Num(0)
    /\ files["weekday_release_patterns"][2][7].val = Num(5)
    /\ files["weekday_release_patterns"][2][1].val = Num(10)
    /\ files["weekday_release_patterns"][2][2].val = Num(0)

----------------------------------------------------------------------------
(* SpecSeason: the run up to the seasonal chart, over every table of up to  *)
(* MaxDatedRows rows released in any of the twelve months or undated.      *)

SeasonDates ==
    {DateText(2023, m, 15, 0) : m \in 1..12} \cup {DateText(2023, 13, 1, 0), NA}

InitSeason ==
    \E dates \in SeqsUpTo(SeasonDates, MaxDatedRows) :
        Start(CsvFile(DatedTable([i \in 1..Len(dates) |-> <<dates[i], Num(1)>>])),
              DefaultArgs, DefaultHolidayKwargs)

NextSeason ==
    \/ LoadData
    \/ CleanHours
    \/ PrepareDates
    \/ PlotContentType
    \/ PlotLanguage
    \/ PlotMonthly
    \/ PlotTypeAndMonth
    \/ PlotSeasonal

SpecSeason == InitSeason /\ [][NextSeason]_vars

\* The fixed mapping of the claim, month by month.
SeasonOfMonth ==
    <<Winter, Winter, Spring, Spring, Spring, Summer, Summer, Summer, Fall, Fall, Fall,
      Winter>>

\* C7: every row's Release Season is the season the fixed mapping gives the
\* month of its release date, and missing when the row has no release date.
C7_SeasonIsFixedMapping ==
    "Release Season" \in Columns(df) =>
        \A i \in 1..NRows(df) :
            LET text == file.table.col["Release Date"].v[i]
                season == df.col["Release Season"].v[i]
            IN IF isna(df.col["Release Date"].v[i]) THEN isna(season)
               ELSE season = Str(SeasonOfMonth[text.v.m])

\* A December release classified Winter beside an undated row left without
\* a season.
C7_Witness ==
    /\ "Release Season" \in Columns(df)
    /\ file.table.col["Release Date"].v = <<DateText(2023, 12, 15, 0), NA>>
    /\ df.col["Release Season"].v = <<Str(Winter), NA>>

----------------------------------------------------------------------------
(* SpecHoliday: the run up to the holiday table, over every table of up to  *)
(* MaxDatedRows release dates around Christmas and New Year 2023, every     *)
(* window of 0..MaxWindow days, and the default or a caller's reference     *)
(* dates.                                                                  *)

MaxWindow == 3

\* Dates on, next to and up to five days from 25 December 2023, some at
\* noon; one three days before 1 January 2023; a text that names no date; a
\* missing date.
HolidayDates ==
    {DateText(2023, 12, 25, 0), DateText(2023, 12, 25, 12), DateText(2023, 12, 24, 0),
     DateText(2023, 12, 21, 12), DateText(2023, 12, 22, 0), DateText(2023, 12, 28, 12),
     DateText(2023, 12, 29, 0), DateText(2023, 12, 20, 0), DateText(2022, 12, 29, 0),
     DateText(2023, 2, 30, 0), NA}

ReferenceDates ==
    {[none |-> TRUE], [none |-> FALSE, dates |-> <<DateText(2023, 12, 26, 0)>>]}

InitHoliday ==
    \E dates \in SeqsUpTo(HolidayDates, MaxDatedRows),
       important_dates \in ReferenceDates,
       window_days \in 0..MaxWindow :
        Start(CsvFile(DatedTable([i \in 1..Len(dates) |-> <<dates[i], Num(1)>>])),
              DefaultArgs,
              [important_dates |-> important_dates, window_days |-> window_days])

NextHoliday ==
    \/ LoadData
    \/ CleanHours
    \/ PrepareDates
    \/ PlotContentType
    \/ PlotLanguage
    \/ PlotMonthly
    \/ PlotTypeAndMonth
    \/ PlotSeasonal
    \/ MonthlyReleases
    \/ WeekdayPatterns
    \/ HolidayAnalysis

SpecHoliday == InitHoliday /\ [][NextHoliday]_vars

\* The calendar day a date text names, as a day number.
CalendarDay(text) == DaysFromCivil(text.v.y, text.v.m, text.v.d)

\* The reference dates of the run, as the texts given.
ReferenceTexts ==
    IF holiday_kwargs.important_dates.none
    THEN <<DateText(2023, 1, 1, 0), DateText(2023, 2, 14, 0), DateText(2023, 7, 4, 0),
           DateText(2023, 10, 31, 0), DateText(2023, 12, 25, 0)>>
    ELSE holiday_kwargs.important_dates.dates

\* Row i of the input has a release date, and the calendar day of that date
\* is at most window_days days before or after some reference date.
WithinWindow(i) ==
    LET text == file.table.col["Release Date"].v[i] IN
    /\ notna(text)
    /\ notna(df.col["Release Date"].v[i])
    /\ \E j \in 1..Len(ReferenceTexts) :
          Abs(CalendarDay(text) - CalendarDay(ReferenceTexts[j])) <= holiday_kwargs.window_days

HolidayRan == "holiday" \in Range(ran)

\* C3: the holiday table holds exactly the rows that have a release date at
\* most window_days days from some reference date, in table order; without
\* such a row no table is written and the absence is reported.
C3_HolidayRowsWithinWindow ==
    HolidayRan =>
        LET matching == Ascending({i \in 1..NRows(file.table) : WithinWindow(i)}) IN
        IF matching = <<>>
        THEN /\ "holiday_releases.csv" \notin DOMAIN files
             /\ \E k \in 1..Len(stdout) :
                   stdout[k].msg = "No releases found within the specified windows around important dates."
        ELSE /\ "holiday_releases.csv" \in DOMAIN files
             /\ files["holiday_releases.csv"].idx = matching

\* Window 3 around 25 December: the row of 28 December at noon is in the
\* table and the row of 21 December at noon, four calendar days before, is
\* not.
C3_Witness ==
    /\ HolidayRan
    /\ holiday_kwargs = DefaultHolidayKwargs
    /\ file.table.col["Release Date"].v = <<DateText(2023, 12, 21, 12), DateText(2023, 12, 28, 12)>>
    /\ "holiday_releases.csv" \in DOMAIN files
    /\ files["holiday_releases.csv"].idx = <<2>>

----------------------------------------------------------------------------
(* SpecTop: the run up to the top titles, over every table of up to MaxRows *)
(* viewership values with ties and gaps and every N of 0..MaxTopN.         *)

MaxTopN == 3

TopHours == {Num(5), Num(10), NA}

InitTop ==
    \E hours \in SeqsUpTo(TopHours, MaxRows), top_n \in 0..MaxTopN :
        Start(CsvFile(DatedTable([i \in 1..Len(hours) |-> <<AnyDate, hours[i]>>])),
              [DefaultArgs EXCEPT !.top_n = top_n], DefaultHolidayKwargs)

NextTop ==
    \/ LoadData
    \/ CleanHours
    \/ PrepareDates
    \/ PlotContentType
    \/ PlotLanguage
    \/ PlotMonthly
    \/ PlotTypeAndMonth
    \/ PlotSeasonal
    \/ MonthlyReleases
    \/ WeekdayPatterns
    \/ HolidayAnalysis
    \/ TopTitles

SpecTop == InitTop /\ [][NextTop]_vars

\* The rows of a top-N table printed: N rows, or all R rows of the input
\* when it has fewer; a row with a viewership value is never left out for a
\* row without one or for a row with a smaller one; of two rows of equal
\* viewership the later one is only in the table after the earlier one.
IsTopN(top) ==
    LET hours == file.table.col["Hours Viewed"].v
        R == Len(hours)
        pos(i) == CHOOSE k \in 1..Len(top) : top[k] = i
    IN /\ Len(top) = (IF args.top_n <= R THEN args.top_n ELSE R)
       /\ Range(top) \subseteq 1..R
       /\ \A k, l \in 1..Len(top) : k # l => top[k] # top[l]
       /\ \A r \in Range(top), s \in (1..R) \ Range(top) :
             notna(hours[s]) => (notna(hours[r]) /\ hours[r].v >= hours[s].v)
       /\ \A i, j \in 1..R :
             (i < j /\ SameCell(hours[i], hours[j]) /\ j \in Range(top)) =>
                 (i \in Range(top) /\ pos(i) < pos(j))

\* C5: the top titles printed are the top N rows of the table.
C5_TopNLargestStable ==
    \A k \in 1..Len(stdout) :
        stdout[k].msg = "Top titles" => IsTopN(stdout[k].top.idx)

\* Top 2 of the viewerships 5, 10, 10: the two rows of 10, the earlier first.
C5_Witness ==
    /\ args.top_n = 2
    /\ file.table.col["Hours Viewed"].v = <<Num(5), Num(10), Num(10)>>
    /\ \E k \in 1..Len(stdout) :
          stdout[k].msg = "Top titles" /\ stdout[k].top.idx = <<2, 3>>

====
